---- MODULE Spec2Model ----
(***************************************************************************)
(* Model of src/docker_image_analyzer.py: the rule checklists of           *)
(* analyze_image and analyze_container over the JSON records returned by   *)
(* the docker CLI, and the control flow of main / watch_mode /             *)
(* analyze_once around them.                                               *)
(*                                                                         *)
(* JSON values are tagged records, so that Python's None, numbers,         *)
(* strings, lists and dicts stay distinct and an operation applied to the  *)
(* wrong kind of value raises as it does in Python.  A dict is a function  *)
(* from its keys; a key that is missing is not in the domain.              *)
(***************************************************************************)
EXTENDS Integers, Sequences, FiniteSets, TLC

VARIABLES
    pc,         \* where the process is (main, the watch loop, analyze_once)
    argv,       \* the command line main was given
    args,       \* the argparse.Namespace parse_args returned
    images,     \* analyze_once: what list_images returned
    containers, \* analyze_once: what list_containers returned
    idx,        \* how many entities the running for loop has taken
    out,        \* lines printed to stdout since the current pass began
    err,        \* lines printed to stderr since the current pass began
    escaped,    \* the exception that left main, "" while there is none
    passes,     \* analysis passes started
    ekind,      \* engine runs: "image" / "container"
    edone,      \* engine runs: the analysis has been applied
    einspect,   \* engine runs: what docker inspect gave
    ehistory,   \* engine runs: what docker history gave
    eresult     \* engine runs: what analyze_image / analyze_container did

vars == <<pc, argv, args, images, containers, idx, out, err, escaped, passes,
          ekind, edone, einspect, ehistory, eresult>>

procVars == <<pc, argv, args, images, containers, idx, out, err, escaped, passes>>
engVars == <<ekind, edone, einspect, ehistory, eresult>>

---------------------------------------------------------------------------
(* Python values *)

PyNone == [t |-> "none"]
PyInt(n) == [t |-> "int", v |-> n]
PyStr(s) == [t |-> "str", v |-> s]
PyBool(b) == [t |-> "bool", v |-> b]
PyList(q) == [t |-> "list", v |-> q]
PyDict(f) == [t |-> "dict", v |-> f]

NoKeys == [k \in {} |-> PyNone]
EmptyDict == PyDict(NoKeys)

\* bool(x)
Truthy(x) ==
    CASE x.t = "none" -> FALSE
      [] x.t = "int"  -> x.v # 0
      [] x.t = "str"  -> x.v # ""
      [] x.t = "bool" -> x.v
      [] x.t = "list" -> Len(x.v) > 0
      [] x.t = "dict" -> DOMAIN x.v # {}

\* a or b
Or(a, b) == IF Truthy(a) THEN a ELSE b

\* d.get(k, default), d a dict
GetD(d, k, default) == IF k \in DOMAIN d.v THEN d.v[k] ELSE default

\* d.get(k), d a dict
Get(d, k) == GetD(d, k, PyNone)

IsStr(x, s) == x.t = "str" /\ x.v = s

---------------------------------------------------------------------------
(* Recommendation and the outcome of a call *)

Recommendation(subject, severity, message) ==
    [subject |-> subject, severity |-> severity, message |-> message]

\* A call either returns a list of Recommendations or raises.
Returns(recs) == [exc |-> "", recs |-> recs]
Raises(exc) == [exc |-> exc, recs |-> <<>>]

\* Two statements in sequence: the first exception ends the function.
Then(a, b) ==
    IF a.exc # "" THEN a
    ELSE IF b.exc # "" THEN b
    ELSE Returns(a.recs \o b.recs)

\* RuntimeError and its subclass DockerUnavailableError: what "except
\* RuntimeError" catches.
IsRuntimeError(exc) == exc \in {"RuntimeError", "DockerUnavailableError"}

---------------------------------------------------------------------------
(* The docker CLI: what one invocation gives back *)

\* shutil.which("docker") is None, or FileNotFoundError from subprocess.run
CmdUnavailable == [run |-> "unavailable"]
\* CalledProcessError: docker exited non-zero
CmdFailed == [run |-> "failed"]
\* exit status 0 with this standard output
CmdOutput(stdout) == [run |-> "ok", stdout |-> stdout]

\* text that json.loads rejects
Unparseable == [t |-> "invalid"]

\* Messages are named by their leading words; the identifiers, sizes and
\* stderr text the source formats into them are left out.
MsgUnavailable == "Docker CLI not found in PATH. Install Docker or ensure it is accessible."
MsgCommandFailed == "Docker command failed"
MsgInspectParse == "Failed to parse docker inspect output"
MsgImageNoData == "docker inspect returned no data for image"
MsgContainerNoData == "docker inspect returned no data for container"

\* _ensure_docker_available and subprocess.run(check=True): the standard
\* output, or the exception raised.
_run_docker_command(r) ==
    IF r.run = "unavailable"
        THEN [exc |-> "DockerUnavailableError", msg |-> MsgUnavailable, value |-> PyNone]
    ELSE IF r.run = "failed"
        THEN [exc |-> "RuntimeError", msg |-> MsgCommandFailed, value |-> PyNone]
    ELSE [exc |-> "", msg |-> "", value |-> r.stdout]

\* json.loads of every line, the lines that do not parse dropped
_parse_json_lines(lines) == SelectSeq(lines, LAMBDA l : l.t # "invalid")

\* inspect_image(image_id): data[0] of the parsed output
inspect_image(r) ==
    LET run == _run_docker_command(r) IN
    IF run.exc # "" THEN run
    ELSE IF run.value.t = "invalid"
        THEN [exc |-> "RuntimeError", msg |-> MsgInspectParse, value |-> PyNone]
    ELSE IF ~Truthy(run.value)
        THEN [exc |-> "RuntimeError", msg |-> MsgImageNoData, value |-> PyNone]
    ELSE [exc |-> "", msg |-> "", value |-> run.value.v[1]]

\* inspect_container(container_id): the same, with its own message
inspect_container(r) ==
    LET run == _run_docker_command(r) IN
    IF run.exc # "" THEN run
    ELSE IF run.value.t = "invalid"
        THEN [exc |-> "RuntimeError", msg |-> MsgInspectParse, value |-> PyNone]
    ELSE IF ~Truthy(run.value)
        THEN [exc |-> "RuntimeError", msg |-> MsgContainerNoData, value |-> PyNone]
    ELSE [exc |-> "", msg |-> "", value |-> run.value.v[1]]

\* image_history: the parsed lines of docker history
image_history(r) ==
    LET run == _run_docker_command(r) IN
    IF run.exc # "" THEN run
    ELSE [exc |-> "", msg |-> "", value |-> _parse_json_lines(run.value)]

---------------------------------------------------------------------------
(* analyze_image *)

SizeLimit == 500 * 1024 * 1024
LayerLimit == 20
LayerSizeLimitMB == 200

MsgImageSize == "Image size exceeds 500MB"
MsgLayerCount == "Image has many layers"
MsgImageRoot == "Container runs as root by default"
MsgNoHealthcheck == "No HEALTHCHECK configured"
MsgPortsNoLabel == "Expose ports with clear metadata"
MsgUnbuffered == "Set PYTHONUNBUFFERED=1"
MsgPipCache == "Enable PIP_NO_CACHE_DIR=1"
MsgLargeLayer == "Layer is large"
MsgImageOk == "No issues detected for this image."

\* size_bytes = int(metadata.get("Size", 0)); int(None) is a TypeError
ImageSizeRule(subject, md) ==
    LET size == GetD(md, "Size", PyInt(0)) IN
    IF size.t # "int" THEN Raises("TypeError")
    ELSE IF size.v > SizeLimit
        THEN Returns(<<Recommendation(subject, "info", MsgImageSize)>>)
    ELSE Returns(<<>>)

\* root_fs = metadata.get("RootFS", {}); layers = root_fs.get("Layers") or []
ImageLayerRule(subject, md) ==
    LET root_fs == GetD(md, "RootFS", EmptyDict) IN
    IF root_fs.t # "dict" THEN Raises("AttributeError")
    ELSE LET layers == Or(Get(root_fs, "Layers"), PyList(<<>>)) IN
         IF layers.t = "list" /\ Len(layers.v) > LayerLimit
             THEN Returns(<<Recommendation(subject, "info", MsgLayerCount)>>)
         ELSE Returns(<<>>)

\* user = config.get("User") or "root"
UserIsRoot(config) ==
    LET user == Or(Get(config, "User"), PyStr("root")) IN
    IsStr(user, "") \/ IsStr(user, "root")

ImageUserRule(subject, config) ==
    IF config.t # "dict" THEN Raises("AttributeError")
    ELSE IF UserIsRoot(config)
        THEN Returns(<<Recommendation(subject, "warning", MsgImageRoot)>>)
    ELSE Returns(<<>>)

ImageHealthRule(subject, config) ==
    IF config.t # "dict" THEN Raises("AttributeError")
    ELSE IF ~Truthy(Get(config, "Healthcheck"))
        THEN Returns(<<Recommendation(subject, "suggestion", MsgNoHealthcheck)>>)
    ELSE Returns(<<>>)

\* exposed_ports and not config.get("Labels", {}).get(<source label>): the
\* labels are read only when ports are exposed
ImagePortsRule(subject, config) ==
    IF config.t # "dict" THEN Raises("AttributeError")
    ELSE LET exposed_ports == Or(Get(config, "ExposedPorts"), EmptyDict)
             labels == GetD(config, "Labels", EmptyDict)
         IN IF ~Truthy(exposed_ports) THEN Returns(<<>>)
            ELSE IF labels.t # "dict" THEN Raises("AttributeError")
            ELSE IF ~Truthy(Get(labels, "org.opencontainers.image.source"))
                THEN Returns(<<Recommendation(subject, "info", MsgPortsNoLabel)>>)
            ELSE Returns(<<>>)

\* env.split("=", 1) of the environment entries the model uses
EnvSplit(env) ==
    CASE env = "PYTHONUNBUFFERED=1"    -> <<"PYTHONUNBUFFERED", "1">>
      [] env = "PIP_NO_CACHE_DIR=1"    -> <<"PIP_NO_CACHE_DIR", "1">>
      [] env = "PIP_NO_CACHE_DIR=true" -> <<"PIP_NO_CACHE_DIR", "true">>
      [] env = "PIP_NO_CACHE_DIR=0"    -> <<"PIP_NO_CACHE_DIR", "0">>
      [] env = "PIP_NO_CACHE_DIR"      -> <<"PIP_NO_CACHE_DIR">>
      [] OTHER                         -> <<env>>

\* {env.split("=", 1)[0]: env.split("=", 1)[1] for env in env_vars if "=" in env}:
\* a later entry of the same name replaces an earlier one
EnvDict(env_vars) ==
    LET with == {i \in 1..Len(env_vars) : Len(EnvSplit(env_vars[i])) = 2}
        names == {EnvSplit(env_vars[i])[1] : i \in with}
        last(n) == CHOOSE i \in with :
                       /\ EnvSplit(env_vars[i])[1] = n
                       /\ \A j \in with : EnvSplit(env_vars[j])[1] = n => j <= i
    IN [n \in names |-> EnvSplit(env_vars[last(n)])[2]]

\* "python" in str(cmd).lower(), of the command words the model uses
MentionsPython(cmd) == cmd \in {"python", "Python3", "/usr/bin/python"}

ImagePythonRule(subject, config) ==
    IF config.t # "dict" THEN Raises("AttributeError")
    ELSE LET env_vars == Or(Get(config, "Env"), PyList(<<>>))
             cmds == Or(Get(config, "Cmd"), PyList(<<>>))
         IN IF /\ "PYTHONUNBUFFERED" \notin DOMAIN EnvDict(env_vars.v)
               /\ \E i \in 1..Len(cmds.v) : MentionsPython(cmds.v[i])
                THEN Returns(<<Recommendation(subject, "suggestion", MsgUnbuffered)>>)
            ELSE Returns(<<>>)

ImagePipRule(subject, config) ==
    IF config.t # "dict" THEN Raises("AttributeError")
    ELSE LET env_dict == EnvDict(Or(Get(config, "Env"), PyList(<<>>)).v) IN
         IF ~(/\ "PIP_NO_CACHE_DIR" \in DOMAIN env_dict
              /\ env_dict["PIP_NO_CACHE_DIR"] \in {"1", "true", "True"})
             THEN Returns(<<Recommendation(subject, "info", MsgPipCache)>>)
         ELSE Returns(<<>>)

\* size_str.split(), of the layer sizes the model uses: the words between
\* runs of white space
SizeWords(size_str) ==
    CASE size_str = "250 MB" -> <<"250", "MB">>
      [] size_str = "150 MB" -> <<"150", "MB">>
      [] size_str = "200 MB" -> <<"200", "MB">>
      [] size_str = "2 GB"   -> <<"2", "GB">>
      [] size_str = "big MB" -> <<"big", "MB">>
      [] OTHER               -> <<size_str>>

\* float(word): a number, or ok = FALSE for the ValueError
FloatOf(word) ==
    CASE word = "250" -> [ok |-> TRUE, v |-> 250]
      [] word = "150" -> [ok |-> TRUE, v |-> 150]
      [] word = "200" -> [ok |-> TRUE, v |-> 200]
      [] word = "2"   -> [ok |-> TRUE, v |-> 2]
      [] OTHER        -> [ok |-> FALSE, v |-> 0]

\* unit.upper().startswith(prefix), of the units the model uses
UnitStartsWith(unit, prefix) ==
    \/ prefix = "GB" /\ unit \in {"GB", "gb", "GB."}
    \/ prefix = "MB" /\ unit \in {"MB", "mb", "MB."}

\* The body of "for layer in large_layers": size_value, unit =
\* size_str.split() is a ValueError unless there are exactly two words, and
\* the layer is then skipped.
IsLargeLayer(layer) ==
    LET size == Get(layer, "Size") IN
    /\ Truthy(size)
    /\ ~IsStr(size, "0B") /\ ~IsStr(size, "0 B")
    /\ LET words == SizeWords(size.v) IN
       /\ Len(words) = 2
       /\ FloatOf(words[1]).ok
       /\ \/ UnitStartsWith(words[2], "GB")
          \/ UnitStartsWith(words[2], "MB") /\ FloatOf(words[1]).v > LayerSizeLimitMB

LargeLayerRecs(subject, history) ==
    LET large == SelectSeq(history, IsLargeLayer) IN
    [i \in 1..Len(large) |-> Recommendation(subject, "info", MsgLargeLayer)]

\* history = image_history(image_id) is called outside any try: what it
\* raises leaves analyze_image
ImageHistoryRule(subject, historyCmd) ==
    LET history == image_history(historyCmd) IN
    IF history.exc # "" THEN Raises(history.exc)
    ELSE Returns(LargeLayerRecs(subject, history.value))

\* The rules with the user rule and the health-check rule exchanged.
ImageMetadataRulesSwapped(subject, md) ==
    LET config == GetD(md, "Config", EmptyDict) IN
    Then(ImageSizeRule(subject, md),
    Then(ImageLayerRule(subject, md),
    Then(ImageHealthRule(subject, config),
    Then(ImageUserRule(subject, config),
    Then(ImagePortsRule(subject, config),
    Then(ImagePythonRule(subject, config),
         ImagePipRule(subject, config)))))))

\* The seven rules on the inspect record, in the order of the code.
ImageMetadataRules(subject, md) ==
    LET config == GetD(md, "Config", EmptyDict) IN
    Then(ImageSizeRule(subject, md),
    Then(ImageLayerRule(subject, md),
    Then(ImageUserRule(subject, config),
    Then(ImageHealthRule(subject, config),
    Then(ImagePortsRule(subject, config),
    Then(ImagePythonRule(subject, config),
         ImagePipRule(subject, config)))))))

\* if not recs: recs.append(<ok>)
OrOk(subject, res, message) ==
    IF res.exc = "" /\ res.recs = <<>>
        THEN Returns(<<Recommendation(subject, "ok", message)>>)
    ELSE res

\* The handler with "except RuntimeError" narrowed so that the subclass
\* DockerUnavailableError passes through it.
InspectFailureNarrow(subject, inspected) ==
    IF inspected.exc = "RuntimeError"
        THEN Returns(<<Recommendation(subject, "error", inspected.msg)>>)
    ELSE Raises(inspected.exc)

\* except RuntimeError as exc: return [Recommendation(subject, "error", str(exc))]
InspectFailure(subject, inspected) ==
    IF IsRuntimeError(inspected.exc)
        THEN Returns(<<Recommendation(subject, "error", inspected.msg)>>)
    ELSE Raises(inspected.exc)

\* analyze_image(image): inspectCmd and historyCmd are what the docker CLI
\* gives for "inspect <id>" and "history <id>"
analyze_image(subject, inspectCmd, historyCmd) ==
    LET inspected == inspect_image(inspectCmd) IN
    IF inspected.exc # "" THEN InspectFailure(subject, inspected)
    ELSE OrOk(subject,
              Then(ImageMetadataRules(subject, inspected.value),
                   ImageHistoryRule(subject, historyCmd)),
              MsgImageOk)

---------------------------------------------------------------------------
(* analyze_container *)

MsgNotRunning == "Container is not running"
MsgUnhealthy == "Container health status is not healthy"
MsgContainerRoot == "Container is running as root"
MsgNoRestart == "No restart policy configured"
MsgPrivileged == "Container is running in privileged mode"
MsgNoMemory == "No memory limit set"
MsgLogDriver == "Default logging driver json-file can grow unbounded"
MsgUnboundPorts == "Container exposes ports without host bindings"
MsgContainerOk == "No runtime issues detected for this container."

\* The state rule with "elif" written as a second "if": the health status
\* is looked at whether or not the container runs.
ContainerStateRuleTwoIfs(subject, md) ==
    LET state == GetD(md, "State", EmptyDict) IN
    IF state.t # "dict" THEN Raises("AttributeError")
    ELSE LET health == Get(state, "Health")
             stopped ==
                 IF ~Truthy(GetD(state, "Running", PyBool(FALSE)))
                     THEN <<Recommendation(subject, "warning", MsgNotRunning)>>
                 ELSE <<>>
         IN IF ~Truthy(health) THEN Returns(stopped)
            ELSE IF health.t # "dict" THEN Raises("AttributeError")
            ELSE IF IsStr(Get(health, "Status"), "healthy") THEN Returns(stopped)
            ELSE IF "Status" \notin DOMAIN health.v THEN Raises("KeyError")
            ELSE Returns(stopped \o <<Recommendation(subject, "warning", MsgUnhealthy)>>)

\* if not state.get("Running", False): ...
\* elif state.get("Health") and state["Health"].get("Status") != "healthy": ...
\* The message of the second branch reads state['Health']['Status'].
ContainerStateRule(subject, md) ==
    LET state == GetD(md, "State", EmptyDict) IN
    IF state.t # "dict" THEN Raises("AttributeError")
    ELSE IF ~Truthy(GetD(state, "Running", PyBool(FALSE)))
        THEN Returns(<<Recommendation(subject, "warning", MsgNotRunning)>>)
    ELSE LET health == Get(state, "Health") IN
         IF ~Truthy(health) THEN Returns(<<>>)
         ELSE IF health.t # "dict" THEN Raises("AttributeError")
         ELSE IF IsStr(Get(health, "Status"), "healthy") THEN Returns(<<>>)
         ELSE IF "Status" \notin DOMAIN health.v THEN Raises("KeyError")
         ELSE Returns(<<Recommendation(subject, "warning", MsgUnhealthy)>>)

ContainerUserRule(subject, md) ==
    LET config == GetD(md, "Config", EmptyDict) IN
    IF config.t # "dict" THEN Raises("AttributeError")
    ELSE IF UserIsRoot(config)
        THEN Returns(<<Recommendation(subject, "warning", MsgContainerRoot)>>)
    ELSE Returns(<<>>)

\* restart_policy = (host_config.get("RestartPolicy") or {}).get("Name") or ""
ContainerRestartRule(subject, host_config) ==
    IF host_config.t # "dict" THEN Raises("AttributeError")
    ELSE LET policy == Or(Get(host_config, "RestartPolicy"), EmptyDict) IN
         IF policy.t # "dict" THEN Raises("AttributeError")
         ELSE LET restart_policy == Or(Get(policy, "Name"), PyStr("")) IN
              IF IsStr(restart_policy, "") \/ IsStr(restart_policy, "no")
                  THEN Returns(<<Recommendation(subject, "suggestion", MsgNoRestart)>>)
              ELSE Returns(<<>>)

ContainerPrivilegedRule(subject, host_config) ==
    IF host_config.t # "dict" THEN Raises("AttributeError")
    ELSE IF Truthy(Get(host_config, "Privileged"))
        THEN Returns(<<Recommendation(subject, "warning", MsgPrivileged)>>)
    ELSE Returns(<<>>)

ContainerMemoryRule(subject, host_config) ==
    IF host_config.t # "dict" THEN Raises("AttributeError")
    ELSE IF ~Truthy(Get(host_config, "Memory"))
        THEN Returns(<<Recommendation(subject, "info", MsgNoMemory)>>)
    ELSE Returns(<<>>)

\* host_config.get("LogConfig", {}).get("Type") in ("", "json-file")
ContainerLogRule(subject, host_config) ==
    IF host_config.t # "dict" THEN Raises("AttributeError")
    ELSE LET log_config == GetD(host_config, "LogConfig", EmptyDict) IN
         IF log_config.t # "dict" THEN Raises("AttributeError")
         ELSE LET type == Get(log_config, "Type") IN
              IF IsStr(type, "") \/ IsStr(type, "json-file")
                  THEN Returns(<<Recommendation(subject, "suggestion", MsgLogDriver)>>)
              ELSE Returns(<<>>)

\* network_settings.get("Ports") and any(details is None for details in
\* network_settings["Ports"].values())
ContainerPortsRule(subject, md) ==
    LET network_settings == GetD(md, "NetworkSettings", EmptyDict) IN
    IF network_settings.t # "dict" THEN Raises("AttributeError")
    ELSE LET ports == Get(network_settings, "Ports") IN
         IF ~Truthy(ports) THEN Returns(<<>>)
         ELSE IF ports.t # "dict" THEN Raises("AttributeError")
         ELSE IF \E p \in DOMAIN ports.v : ports.v[p] = PyNone
             THEN Returns(<<Recommendation(subject, "info", MsgUnboundPorts)>>)
         ELSE Returns(<<>>)

\* The eight rules on the inspect record, in the order of the code.
ContainerRules(subject, md) ==
    LET host_config == GetD(md, "HostConfig", EmptyDict) IN
    Then(ContainerStateRule(subject, md),
    Then(ContainerUserRule(subject, md),
    Then(ContainerRestartRule(subject, host_config),
    Then(ContainerPrivilegedRule(subject, host_config),
    Then(ContainerMemoryRule(subject, host_config),
    Then(ContainerLogRule(subject, host_config),
         ContainerPortsRule(subject, md)))))))

\* analyze_container(container): inspectCmd is what the docker CLI gives
\* for "inspect <id>"
analyze_container(subject, inspectCmd) ==
    LET inspected == inspect_container(inspectCmd) IN
    IF inspected.exc # "" THEN InspectFailure(subject, inspected)
    ELSE OrOk(subject, ContainerRules(subject, inspected.value), MsgContainerOk)

---------------------------------------------------------------------------
(* The inspect records and history listings the engine is applied to *)

\* The dicts with key k absent, or present with a value of S.
Optional(k, S) == {NoKeys} \cup {k :> x : x \in S}

\* The dicts made of one dict of A and one of B (their keys differ).
Merge(A, B) == {a @@ b : a \in A, b \in B}

Dicts(F) == {PyDict(f) : f \in F}

Digests(n) == PyList([i \in 1..n |-> "sha256"])

MiB == 1024 * 1024

Users == {PyNone, PyStr(""), PyStr("root"), PyStr("app")}

ImageConfigs ==
    Dicts(
        Merge(Optional("User", Users),
        Merge(Optional("Healthcheck", {PyNone, PyDict("Test" :> PyStr("curl"))}),
        Merge(Optional("ExposedPorts", {PyNone, PyDict("80/tcp" :> EmptyDict)}),
        Merge(Optional("Labels", {PyNone,
                  PyDict("org.opencontainers.image.source" :> PyStr("https://example.org/repo"))}),
        Merge(Optional("Env", {PyNone,
                  PyList(<<"PYTHONUNBUFFERED=1", "PIP_NO_CACHE_DIR=1">>),
                  PyList(<<"PIP_NO_CACHE_DIR", "PIP_NO_CACHE_DIR=1", "PIP_NO_CACHE_DIR=0">>)}),
              Optional("Cmd", {PyNone, PyList(<<"Python3", "app.py">>), PyList(<<"nginx">>)})))))))

ImageRecords ==
    Dicts(
        Merge(Optional("Size", {PyNone, PyInt(500 * MiB), PyInt(600 * MiB)}),
        Merge(Optional("RootFS", {PyNone} \cup
                  Dicts(Optional("Layers", {PyNone, Digests(LayerLimit), Digests(LayerLimit + 1)}))),
              Optional("Config", {PyNone} \cup ImageConfigs))))

Layer(size) == PyDict(("Size" :> PyStr(size)) @@ ("CreatedBy" :> PyStr("RUN make")))

ContainerStates ==
    Dicts(
        Merge(Optional("Running", {PyBool(FALSE), PyBool(TRUE)}),
              Optional("Health", {PyNone, PyDict("Status" :> PyStr("healthy")),
                                  PyDict("Status" :> PyStr("unhealthy"))})))

HostConfigs ==
    Dicts(
        Merge(Optional("RestartPolicy", {PyNone, PyDict("Name" :> PyStr("")),
                  PyDict("Name" :> PyStr("no")), PyDict("Name" :> PyStr("always"))}),
        Merge({"Privileged" :> PyBool(b) : b \in BOOLEAN},
        Merge({"Memory" :> PyInt(m) : m \in {0, 512 * MiB}},
              Optional("LogConfig", {PyNone, EmptyDict, PyDict("Type" :> PyStr("")),
                  PyDict("Type" :> PyStr("json-file")), PyDict("Type" :> PyStr("syslog"))})))))

NetworkSettings ==
    Dicts(Optional("Ports", {PyNone, EmptyDict,
              PyDict("80/tcp" :> PyList(<<"0.0.0.0:8080">>)),
              PyDict(("80/tcp" :> PyList(<<"0.0.0.0:8080">>)) @@ ("443/tcp" :> PyNone))}))

ContainerRecords ==
    Dicts(
        Merge(Optional("State", {PyNone} \cup ContainerStates),
        Merge(Optional("Config", {PyNone} \cup Dicts(Optional("User", Users))),
        Merge(Optional("HostConfig", {PyNone} \cup HostConfigs),
              Optional("NetworkSettings", {PyNone} \cup NetworkSettings)))))

\* What "docker inspect <id>" can give: no docker, a non-zero exit, text
\* that is no JSON, an empty array, or an array of one record.
FailedInspects ==
    {CmdUnavailable, CmdFailed, CmdOutput(Unparseable), CmdOutput(PyList(<<>>))}

InspectsOf(records) == FailedInspects \cup {CmdOutput(PyList(<<r>>)) : r \in records}

\* What "docker history <id>" can give.
EngineHistories ==
    {CmdUnavailable, CmdFailed,
     CmdOutput(<<>>),
     CmdOutput(<<Layer("150 MB"), Unparseable, Layer("0B")>>),
     CmdOutput(<<Layer("250 MB")>>)}

NoCmd == [run |-> "none"]
NoResult == [exc |-> "none", recs |-> <<>>]

---------------------------------------------------------------------------
(* EngineSpec: analyze_image and analyze_container applied once to every   *)
(* inspect record and history listing of the sets above                    *)

NoArgs == [images |-> FALSE, containers |-> FALSE, all_containers |-> FALSE, watch |-> 0]

IdleProcess ==
    /\ pc = "engine"
    /\ argv = NoArgs
    /\ args = NoArgs
    /\ images = <<>>
    /\ containers = <<>>
    /\ idx = 0
    /\ out = <<>>
    /\ err = <<>>
    /\ escaped = ""
    /\ passes = 0

EngineInit ==
    /\ IdleProcess
    /\ ekind \in {"image", "container"}
    /\ edone = FALSE
    /\ einspect = NoCmd
    /\ ehistory = NoCmd
    /\ eresult = NoResult

EngineSubject == <<"entity", 0>>

EngineAnalyzeImage ==
    /\ ekind = "image" /\ ~edone
    /\ \E i \in InspectsOf(ImageRecords), h \in EngineHistories :
        /\ einspect' = i
        /\ ehistory' = h
        /\ eresult' = analyze_image(EngineSubject, i, h)
    /\ edone' = TRUE
    /\ UNCHANGED <<ekind, procVars>>

EngineAnalyzeContainer ==
    /\ ekind = "container" /\ ~edone
    /\ \E i \in InspectsOf(ContainerRecords) :
        /\ einspect' = i
        /\ eresult' = analyze_container(EngineSubject, i)
    /\ edone' = TRUE
    /\ UNCHANGED <<ekind, ehistory, procVars>>

EngineNext == EngineAnalyzeImage \/ EngineAnalyzeContainer

EngineSpec == EngineInit /\ [][EngineNext]_vars

---------------------------------------------------------------------------
(* main, watch_mode and analyze_once *)

MaxBatch == 2
MaxPasses == 2

MsgWatchInterval == "Watch interval must be greater than zero seconds."
MsgNoContainers == "No containers found."
MsgStopping == "Stopping watch mode."

\* A line printed with print(), not through render_report.
PlainLine(text) == [subject |-> <<"", 0>>, severity |-> "", message |-> text]

\* parse_args with "--all-containers implies --containers" left out.
parse_args_no_imply(a) ==
    IF ~a.images /\ ~a.containers
        THEN [a EXCEPT !.images = TRUE, !.containers = TRUE]
    ELSE a

\* parse_args: the flags given, then the two adjustments
parse_args(a) ==
    LET implied == IF a.all_containers THEN [a EXCEPT !.containers = TRUE] ELSE a IN
    IF ~implied.images /\ ~implied.containers
        THEN [implied EXCEPT !.images = TRUE, !.containers = TRUE]
    ELSE implied

CommandLines ==
    [images : BOOLEAN, containers : BOOLEAN, all_containers : BOOLEAN, watch : {-1, 0, 5}]

\* subject = f"image {repo_tags}:{tag} ({image_id})"
ImageSubject(image) == <<"image", Get(image, "ID").v>>
\* subject = f"container {name} ({container_id})"
ContainerSubject(container) == <<"container", Get(container, "ID").v>>

\* One line of "docker images --format {{json .}}"
ImageLine(i) == PyDict("ID" :> PyInt(i))
\* One line of "docker ps --format {{json .}}"
ContainerLine(i, state) == PyDict(("ID" :> PyInt(i)) @@ ("State" :> PyStr(state)))

\* What "docker images" can give: n lines, with or without a line that is
\* no JSON before them.
ImageListings ==
    {CmdUnavailable, CmdFailed}
    \cup {CmdOutput([i \in 1..n |-> ImageLine(i)]) : n \in 0..MaxBatch}
    \cup {CmdOutput(<<Unparseable>> \o [i \in 1..n |-> ImageLine(i)]) : n \in 0..MaxBatch}

\* The containers of the host: some running, then some that have exited.
Hosts ==
    {[i \in 1..(r + e) |-> ContainerLine(i, IF i <= r THEN "running" ELSE "exited")] :
         r \in 0..MaxBatch, e \in 0..MaxBatch}

\* docker ps lists the running containers, docker ps -a all of them:
\* list_containers inserts "-a" when all_containers is set.
DockerPs(host, all_containers) ==
    SelectSeq(host, LAMBDA c : all_containers \/ IsStr(Get(c, "State"), "running"))

ContainerListings(all_containers) ==
    {CmdUnavailable, CmdFailed}
    \cup {CmdOutput(DockerPs(h, all_containers)) : h \in {x \in Hosts : Len(x) <= MaxBatch}}

\* list_images(): the parsed lines of "docker images"
list_images(r) ==
    LET run == _run_docker_command(r) IN
    IF run.exc # "" THEN run
    ELSE [exc |-> "", msg |-> "", value |-> _parse_json_lines(run.value)]

\* list_containers(all_containers): the parsed lines of "docker ps [-a]"
list_containers(r) ==
    LET run == _run_docker_command(r) IN
    IF run.exc # "" THEN run
    ELSE [exc |-> "", msg |-> "", value |-> _parse_json_lines(run.value)]

\* The inspect records the passes meet.
BareRecord == PyDict(NoKeys)
NullConfigRecord == PyDict("Config" :> PyNone)
PassInspects == {CmdUnavailable, CmdFailed, CmdOutput(Unparseable)} \cup
                {CmdOutput(PyList(<<r>>)) : r \in {BareRecord, NullConfigRecord}}
PassHistories == {CmdUnavailable, CmdFailed, CmdOutput(<<>>)}

InWatchMode(a) == a.watch > 0

\* Where control goes when analyze_once returns.
EndOfPass(a) == IF InWatchMode(a) THEN "sleep" ELSE "exit"
\* Where control goes after the image part of analyze_once.
AfterImages(a) == IF a.containers THEN "list_containers" ELSE EndOfPass(a)
\* Where analyze_once starts.
StartOfPass(a) == IF a.images THEN "list_images" ELSE AfterImages(a)

Init ==
    /\ pc = "main"
    /\ argv = NoArgs
    /\ args = NoArgs
    /\ images = <<>>
    /\ containers = <<>>
    /\ idx = 0
    /\ out = <<>>
    /\ err = <<>>
    /\ escaped = ""
    /\ passes = 0
    /\ ekind = "none"
    /\ edone = FALSE
    /\ einspect = NoCmd
    /\ ehistory = NoCmd
    /\ eresult = NoResult

\* main: parse_args, then watch_mode when args.watch is non-zero (which
\* refuses an interval <= 0), else one analyze_once.
Main ==
    /\ pc = "main"
    /\ \E a \in CommandLines :
        LET parsed == parse_args(a) IN
        /\ argv' = a
        /\ args' = parsed
        /\ IF parsed.watch # 0 /\ parsed.watch <= 0
               THEN /\ err' = <<MsgWatchInterval>>
                    /\ pc' = "exit"
                    /\ passes' = 0
           ELSE /\ err' = <<>>
                /\ pc' = StartOfPass(parsed)
                /\ passes' = 1
    /\ UNCHANGED <<images, containers, idx, out, escaped, engVars>>

\* analyze_once: images = list_images(); both except clauses print the
\* message to stderr and return.
OnceListImages ==
    /\ pc = "list_images"
    /\ \E r \in ImageListings :
        LET got == list_images(r) IN
        IF got.exc # ""
            THEN /\ err' = Append(err, got.msg)
                 /\ pc' = EndOfPass(args)
                 /\ UNCHANGED images
        ELSE /\ images' = got.value
             /\ pc' = IF got.value = <<>> THEN AfterImages(args) ELSE "image"
             /\ UNCHANGED err
    /\ idx' = 0
    /\ UNCHANGED <<argv, args, containers, out, escaped, passes, engVars>>

\* One turn of "for image in images: render_report(analyze_image(image))".
\* An exception analyze_image raises is caught nowhere up to main.
OnceAnalyzeImage ==
    /\ pc = "image"
    /\ \E i \in PassInspects, h \in PassHistories :
        LET res == analyze_image(ImageSubject(images[idx + 1]), i, h) IN
        IF res.exc # ""
            THEN /\ pc' = "crash"
                 /\ escaped' = res.exc
                 /\ UNCHANGED <<out, idx>>
        ELSE /\ out' = out \o res.recs
             /\ idx' = idx + 1
             /\ pc' = IF idx + 1 = Len(images) THEN AfterImages(args) ELSE "image"
             /\ UNCHANGED escaped
    /\ UNCHANGED <<argv, args, images, containers, err, passes, engVars>>

\* analyze_once: containers = list_containers(all_containers=args.all_containers)
OnceListContainers ==
    /\ pc = "list_containers"
    /\ \E r \in ContainerListings(args.all_containers) :
        LET got == list_containers(r) IN
        IF got.exc # ""
            THEN /\ err' = Append(err, got.msg)
                 /\ pc' = EndOfPass(args)
                 /\ UNCHANGED <<containers, out>>
        ELSE /\ containers' = got.value
             /\ out' = IF got.value = <<>> THEN Append(out, PlainLine(MsgNoContainers)) ELSE out
             /\ pc' = IF got.value = <<>> THEN EndOfPass(args) ELSE "container"
             /\ UNCHANGED err
    /\ idx' = 0
    /\ UNCHANGED <<argv, args, images, escaped, passes, engVars>>

\* One turn of "for container in containers: render_report(analyze_container(container))"
OnceAnalyzeContainer ==
    /\ pc = "container"
    /\ \E i \in PassInspects :
        LET res == analyze_container(ContainerSubject(containers[idx + 1]), i) IN
        IF res.exc # ""
            THEN /\ pc' = "crash"
                 /\ escaped' = res.exc
                 /\ UNCHANGED <<out, idx>>
        ELSE /\ out' = out \o res.recs
             /\ idx' = idx + 1
             /\ pc' = IF idx + 1 = Len(containers) THEN EndOfPass(args) ELSE "container"
             /\ UNCHANGED escaped
    /\ UNCHANGED <<argv, args, images, containers, err, passes, engVars>>

\* watch_mode: time.sleep(interval) returns and the loop starts the next
\* pass, which reads the docker state again.
WatchNextPass ==
    /\ pc = "sleep"
    /\ passes < MaxPasses
    /\ passes' = passes + 1
    /\ pc' = StartOfPass(args)
    /\ images' = <<>>
    /\ containers' = <<>>
    /\ idx' = 0
    /\ out' = <<>>
    /\ err' = <<>>
    /\ UNCHANGED <<argv, args, escaped, engVars>>

\* Ctrl-C while a pass or a sleep is under way: watch_mode catches
\* KeyboardInterrupt around its loop; analyze_once called from main does not.
KeyboardInterrupt ==
    /\ pc \in {"list_images", "image", "list_containers", "container", "sleep"}
    /\ IF InWatchMode(args)
           THEN /\ out' = Append(out, PlainLine(MsgStopping))
                /\ pc' = "exit"
                /\ UNCHANGED escaped
       ELSE /\ pc' = "crash"
            /\ escaped' = "KeyboardInterrupt"
            /\ UNCHANGED out
    /\ UNCHANGED <<argv, args, images, containers, idx, err, passes, engVars>>

Next ==
    \/ Main
    \/ OnceListImages
    \/ OnceAnalyzeImage
    \/ OnceListContainers
    \/ OnceAnalyzeContainer
    \/ WatchNextPass
    \/ KeyboardInterrupt

Spec == Init /\ [][Next]_vars

---------------------------------------------------------------------------
(* Properties of the engine, stated for EngineSpec *)

InspectSucceeded == einspect.run = "ok" /\ einspect \notin FailedInspects
Inspected == einspect.stdout.v[1]
Returned == eresult.exc = ""
HasRec(severity, message) ==
    \E i \in 1..Len(eresult.recs) :
        eresult.recs[i] = Recommendation(EngineSubject, severity, message)

\* str(exc) of the exception a failed inspect call raises
FailureMessage(cmd) ==
    CASE cmd = CmdUnavailable           -> MsgUnavailable
      [] cmd = CmdFailed                -> MsgCommandFailed
      [] cmd = CmdOutput(Unparseable)   -> MsgInspectParse
      [] cmd = CmdOutput(PyList(<<>>))  ->
             IF ekind = "image" THEN MsgImageNoData ELSE MsgContainerNoData

\* C2: when the inspect call for an image or a container fails (no docker,
\* a failed command, unparseable or empty output), the analysis returns
\* exactly one Recommendation, of severity "error", carrying the failure
\* message; no rule has added anything and docker history was not asked.
C2_InspectFailureGivesOneError ==
    (edone /\ einspect \in FailedInspects) =>
        eresult = Returns(<<Recommendation(EngineSubject, "error", FailureMessage(einspect))>>)

C2_Witness ==
    /\ edone /\ ekind = "image"
    /\ einspect = CmdUnavailable
    /\ ehistory = CmdFailed
    /\ Returned /\ Len(eresult.recs) = 1

\* C3: every evaluated image and container yields a non-empty sequence of
\* Recommendations, and an "ok" Recommendation is the only one of its
\* sequence.
C3_EveryEvaluationYields ==
    edone =>
        /\ Returned
        /\ Len(eresult.recs) >= 1
        /\ \A i \in 1..Len(eresult.recs) :
               eresult.recs[i].severity = "ok" => Len(eresult.recs) = 1

\* C4: an inspect record whose optional fields are missing or null is
\* analysed without an exception (docker history answering).
C4_NoRaiseOnMissingOrNull ==
    (/\ edone
     /\ InspectSucceeded
     /\ ekind = "image" => ehistory.run = "ok") => Returned

RunningIsFalse ==
    LET state == GetD(Inspected, "State", PyNone) IN
    state.t = "dict" /\ GetD(state, "Running", PyNone) = PyBool(FALSE)

\* C8: the result for a container whose state reports Running = false
\* holds the "not running" warning and no health-status warning, whatever
\* its other fields are.
C8_StoppedContainerWarned ==
    (edone /\ ekind = "container" /\ InspectSucceeded /\ Returned /\ RunningIsFalse) =>
        /\ HasRec("warning", MsgNotRunning)
        /\ \A i \in 1..Len(eresult.recs) : eresult.recs[i].message # MsgUnhealthy

C8_Witness ==
    /\ edone /\ ekind = "container" /\ InspectSucceeded /\ Returned /\ RunningIsFalse
    /\ Get(Inspected.v["State"], "Health") = PyDict("Status" :> PyStr("unhealthy"))
    /\ HasRec("warning", MsgNotRunning)

\* The place of a message in the checklist of analyze_image.
ImageRuleOrder(message) ==
    CASE message = MsgImageSize     -> 1
      [] message = MsgLayerCount    -> 2
      [] message = MsgImageRoot     -> 3
      [] message = MsgNoHealthcheck -> 4
      [] message = MsgPortsNoLabel  -> 5
      [] message = MsgUnbuffered    -> 6
      [] message = MsgPipCache      -> 7
      [] message = MsgLargeLayer    -> 8
      [] OTHER                      -> 0

SixHundredMiBRootNoHealthcheck ==
    LET config == GetD(Inspected, "Config", EmptyDict) IN
    /\ GetD(Inspected, "Size", PyNone) = PyInt(600 * MiB)
    /\ config.t = "dict"
    /\ GetD(config, "User", PyNone) \in {PyNone, PyStr("")}
    /\ GetD(config, "Healthcheck", PyNone) = PyNone

\* C9: the Recommendations returned for an image are in checklist order
\* (size, layers, user, health-check, ports, buffering, pip cache, history
\* layers); an image of 600 MiB with no user and no health-check gets the
\* "info" size one, then the "warning" root one, then the "suggestion"
\* health-check one.
C9_ImageRuleOrder ==
    (edone /\ ekind = "image" /\ InspectSucceeded /\ Returned) =>
        LET recs == eresult.recs IN
        /\ \A i, j \in 1..Len(recs) :
               i < j => ImageRuleOrder(recs[i].message) <= ImageRuleOrder(recs[j].message)
        /\ \A i, j \in 1..Len(recs) :
               (i < j /\ ImageRuleOrder(recs[j].message) < 8) =>
                   ImageRuleOrder(recs[i].message) < ImageRuleOrder(recs[j].message)
        /\ SixHundredMiBRootNoHealthcheck =>
               \E i, j, k \in 1..Len(recs) :
                   /\ i < j /\ j < k
                   /\ recs[i] = Recommendation(EngineSubject, "info", MsgImageSize)
                   /\ recs[j] = Recommendation(EngineSubject, "warning", MsgImageRoot)
                   /\ recs[k] = Recommendation(EngineSubject, "suggestion", MsgNoHealthcheck)

C9_Witness ==
    /\ edone /\ ekind = "image" /\ InspectSucceeded /\ Returned
    /\ SixHundredMiBRootNoHealthcheck
    /\ Len(eresult.recs) >= 3
    /\ eresult.recs[1].severity = "info"
    /\ eresult.recs[2].severity = "warning"
    /\ eresult.recs[3].severity = "suggestion"

---------------------------------------------------------------------------
(* Properties of a pass and of the watch loop, stated for Spec *)

Rendered(subject) == \E i \in 1..Len(out) : out[i].subject = subject

PassOver == pc \in {"sleep", "exit", "crash"}

Interrupted ==
    \/ escaped = "KeyboardInterrupt"
    \/ out # <<>> /\ out[Len(out)] = PlainLine(MsgStopping)

\* The number of times the current pass has reported that docker cannot be
\* invoked, on stderr or as a Recommendation.
UnavailableReports ==
    Cardinality({i \in 1..Len(err) : err[i] = MsgUnavailable})
    + Cardinality({i \in 1..Len(out) : out[i].message = MsgUnavailable})

\* C1: when a pass is over (not cut short by Ctrl-C), every listed image
\* and container that comes after an entity whose inspect or history call
\* failed has its Recommendations rendered: every listed entity but the one
\* whose evaluation failed is in the report.
C1_FailureDoesNotStopBatch ==
    (PassOver /\ ~Interrupted /\ (escaped = "" \/ IsRuntimeError(escaped))) =>
        /\ \A i \in 1..Len(images) :
               \/ Rendered(ImageSubject(images[i]))
               \/ pc = "crash" /\ containers = <<>> /\ i = idx + 1
        /\ \A i \in 1..Len(containers) :
               \/ Rendered(ContainerSubject(containers[i]))
               \/ pc = "crash" /\ i = idx + 1

\* C5: no error of the docker CLI (docker missing, a non-zero exit,
\* unparseable output, at any call of a pass) leaves main as an exception.
C5_NoBackendErrorEscapes == ~(pc = "crash" /\ IsRuntimeError(escaped))

\* C6: when docker cannot be invoked during a pass, that is reported once
\* in the pass, the pass is over (no further entity is evaluated), and the
\* process lives on to the next pass.
C6_UnavailableAbortsPassOnce ==
    /\ escaped # "DockerUnavailableError"
    /\ UnavailableReports <= 1
    /\ UnavailableReports = 1 => pc \in {"sleep", "exit"}

\* C7: a watch loop with a positive interval ends only by Ctrl-C, and ends
\* normally; with an interval <= 0 no watch pass runs (no sleep, and no
\* more than the one plain pass of interval 0).
C7_WatchLoopStopsOnlyOnInterrupt ==
    /\ (InWatchMode(args) /\ pc \in {"exit", "crash"}) =>
           /\ pc = "exit"
           /\ out # <<>> /\ out[Len(out)] = PlainLine(MsgStopping)
    /\ (pc # "main" /\ argv.watch <= 0) =>
           /\ pc # "sleep"
           /\ passes <= (IF argv.watch = 0 THEN 1 ELSE 0)

NoFlags == ~argv.images /\ ~argv.containers /\ ~argv.all_containers
OnlyAllContainers == ~argv.images /\ ~argv.containers /\ argv.all_containers
OnlyImages == argv.images /\ ~argv.containers /\ ~argv.all_containers

ImageLines == {i \in 1..Len(out) : out[i].subject[1] = "image"}
ContainerLines == {i \in 1..Len(out) : out[i].subject[1] = "container"}

\* C10: with no flag a pass takes images and running containers; with
\* --all-containers alone it takes containers, stopped ones included, and
\* no images; with --images alone it takes images only; a pass without
\* --all-containers lists no stopped container; and in the report of a
\* pass no image line follows a container line.
C10_FlagResolution ==
    pc # "main" =>
        /\ NoFlags => args.images /\ args.containers /\ ~args.all_containers
        /\ OnlyAllContainers => ~args.images /\ args.containers /\ args.all_containers
        /\ OnlyImages => args.images /\ ~args.containers /\ ~args.all_containers
        /\ OnlyAllContainers =>
               /\ pc \notin {"list_images", "image"}
               /\ images = <<>> /\ ImageLines = {}
        /\ OnlyImages =>
               /\ pc \notin {"list_containers", "container"}
               /\ containers = <<>> /\ ContainerLines = {}
        /\ ~argv.all_containers =>
               \A i \in 1..Len(containers) : IsStr(Get(containers[i], "State"), "running")
        /\ \A i \in ImageLines, j \in ContainerLines : i < j

C10_Witness ==
    /\ NoFlags /\ pc = "exit" /\ escaped = ""
    /\ Len(images) = MaxBatch /\ Len(containers) = MaxBatch
    /\ Cardinality(ImageLines) >= MaxBatch
    /\ Cardinality(ContainerLines) >= MaxBatch

\* --all-containers alone: a stopped container is analysed.
C10_StoppedListed ==
    /\ OnlyAllContainers /\ pc = "exit"
    /\ \E i \in 1..Len(containers) :
           /\ IsStr(Get(containers[i], "State"), "exited")
           /\ Rendered(ContainerSubject(containers[i]))

---------------------------------------------------------------------------
(* The logging-driver rule, stated for EngineSpec *)

\* The logging driver of the inspected container: HostConfig.LogConfig.Type,
\* None when HostConfig, LogConfig or Type is missing.
LoggingDriver ==
    LET host_config == GetD(Inspected, "HostConfig", EmptyDict)
        log_config == GetD(host_config, "LogConfig", EmptyDict)
    IN GetD(log_config, "Type", PyNone)

DriverAbsentOrDefault == LoggingDriver \in {PyNone, PyStr(""), PyStr("json-file")}

\* C11: for a container whose inspection succeeded, the result holds the
\* logging-driver "suggestion" exactly when the driver is absent (no
\* LogConfig, no Type, or an empty Type) or is json-file.
C11_LogDriverSuggestion ==
    (edone /\ ekind = "container" /\ InspectSucceeded /\ Returned) =>
        (HasRec("suggestion", MsgLogDriver) <=> DriverAbsentOrDefault)

---------------------------------------------------------------------------
(* HistorySpec: analyze_image applied to every docker history listing of   *)
(* up to MaxHistory lines, for an image whose inspection succeeds          *)

MaxHistory == 2

\* The sizes docker history reports, number and unit written with or
\* without a space between them.
HistorySizes == {"0B", "150 MB", "150MB", "200 MB", "250 MB", "250MB", "2 GB", "2GB"}

\* One line of "docker history --format {{json .}}": a layer with its size,
\* a layer with no Size, or a line that is no JSON.
HistoryLines ==
    {Layer(size) : size \in HistorySizes}
    \cup {PyDict("CreatedBy" :> PyStr("RUN make")), Unparseable}

HistoryListings ==
    {CmdUnavailable, CmdFailed}
    \cup UNION {{CmdOutput(lines) : lines \in [1..n -> HistoryLines]} : n \in 0..MaxHistory}

\* An image no rule on the inspect record fires for.
CleanImageRecord ==
    PyDict(("Size" :> PyInt(100 * MiB))
        @@ ("Config" :> PyDict(("User" :> PyStr("app"))
                            @@ ("Healthcheck" :> PyDict("Test" :> PyStr("curl")))
                            @@ ("Env" :> PyList(<<"PIP_NO_CACHE_DIR=1">>)))))

HistoryInit ==
    /\ IdleProcess
    /\ ekind = "image"
    /\ edone = FALSE
    /\ einspect = NoCmd
    /\ ehistory = NoCmd
    /\ eresult = NoResult

HistoryAnalyzeImage ==
    /\ ekind = "image" /\ ~edone
    /\ \E r \in {BareRecord, CleanImageRecord}, h \in HistoryListings :
        /\ einspect' = CmdOutput(PyList(<<r>>))
        /\ ehistory' = h
        /\ eresult' = analyze_image(EngineSubject, CmdOutput(PyList(<<r>>)), h)
    /\ edone' = TRUE
    /\ UNCHANGED <<ekind, procVars>>

HistoryNext == HistoryAnalyzeImage

HistorySpec == HistoryInit /\ [][HistoryNext]_vars

\* The sizes above 200 MB, or in gigabytes, in either way of writing them.
LargeSizes == {"250 MB", "250MB", "2 GB", "2GB"}

\* The lines of the history listing that are layers of a large size.
LargeHistoryLayers ==
    {j \in 1..Len(ehistory.stdout) :
        /\ ehistory.stdout[j].t = "dict"
        /\ "Size" \in DOMAIN ehistory.stdout[j].v
        /\ ehistory.stdout[j].v["Size"].v \in LargeSizes}

LargeLayerRecommendations ==
    {i \in 1..Len(eresult.recs) :
        eresult.recs[i] = Recommendation(EngineSubject, "info", MsgLargeLayer)}

\* C12: for an image whose inspection succeeded, the result holds one
\* "info" large-layer Recommendation for each history layer whose size is
\* above 200 MB or in gigabytes, written with or without a space between
\* number and unit, and none for any other layer.
C12_LargeLayersReported ==
    (edone /\ ekind = "image" /\ einspect.run = "ok" /\ ehistory.run = "ok" /\ Returned) =>
        Cardinality(LargeLayerRecommendations) = Cardinality(LargeHistoryLayers)

====
